---- MODULE Spec2Model ----
(***************************************************************************)
(* Model of the XLIFF translator (src/app.py): the placeholder shield      *)
(* (protect_nontranslatable / restore_nontranslatable), the per-unit       *)
(* translation wrapper, the segment walker, the two document processors    *)
(* and the spacing normaliser.                                             *)
(*                                                                         *)
(* Texts are sequences of one-character strings.  The Python value None    *)
(* is the one-element sequence None, which is no text of the alphabet.     *)
(***************************************************************************)
EXTENDS Integers, Sequences, FiniteSets, TLC

VARIABLES
    mode,       \* which entry point runs: "shield", "spacing" or "doc"
    pc,         \* position inside the entry point
    text,       \* shield: the text handed to translate_text_unit
    pieces,     \* shield: the pieces text was written from (ghost)
    shielded,   \* shield: t, the text the translator is called with
    tokens,     \* shield: toks
    outcome,    \* shield: what the external call did
    result,     \* shield: the value translate_text_unit returned
    doc,        \* the lxml tree (root element)
    orig,       \* the tree as parsed, never written (ghost)
    once,       \* spacing: the tree after the first pass (ghost)
    flavor,     \* doc: "rise" (process) or "storyline" (process_storyline)
    pairs,      \* doc: the list iter_source_target_pairs returned
    idx,        \* doc: number of pairs the segment loop has handled
    handled,    \* doc: per handled pair, the path of its target
    created,    \* doc: per handled pair, whether ensure_target made it
    calls,      \* doc: every text the external translator was called with
    units       \* doc: log of the text units the walk visited (ghost)

vars == << mode, pc, text, pieces, shielded, tokens, outcome, result, doc,
           orig, once, flavor, pairs, idx, handled, created, calls, units >>

-----------------------------------------------------------------------------
(* Characters *)

None == << "None" >>

Digits == << "0", "1", "2", "3", "4", "5", "6", "7", "8", "9" >>

LowerSeq == << "a", "b", "c", "d", "e", "f", "g", "h", "i", "j", "k", "l", "m",
               "n", "o", "p", "q", "r", "s", "t", "u", "v", "w", "x", "y", "z" >>

UpperSeq == << "A", "B", "C", "D", "E", "F", "G", "H", "I", "J", "K", "L", "M",
               "N", "O", "P", "Q", "R", "S", "T", "U", "V", "W", "X", "Y", "Z" >>

Range(f) == { f[k] : k \in DOMAIN f }

Min(S) == CHOOSE x \in S : \A y \in S : x <= y

Max(S) == CHOOSE x \in S : \A y \in S : x >= y

\* the element of a one-element set: Only({ e(v) : v \in { x } }) is e(x)
\* with x worked out once
Only(S) == CHOOSE x \in S : TRUE

IsDigit(c) == c \in Range(Digits)

IsAlpha(c) == c \in Range(LowerSeq) \cup Range(UpperSeq)

\* str.isalnum on one character
IsAlnum(c) == IsAlpha(c) \/ IsDigit(c)

\* the regex class \w
IsWord(c) == IsAlnum(c) \/ c = "_"

\* the regex class \s, and what str.strip removes
IsSpace(c) == c \in { " ", "\n", "\t", "\r", "\f" }

IsHex(c) == IsDigit(c) \/ c \in { "a", "b", "c", "d", "e", "f", "A", "B", "C", "D", "E", "F" }

\* the regex class [\w\.-]
IsMailChar(c) == IsWord(c) \/ c \in { ".", "-" }

\* the regex class [^%\n\r]
IsVarChar(c) == c \notin { "%", "\n", "\r" }

\* the regex class [\d\.,/:_-]
IsNumChar(c) == IsDigit(c) \/ c \in { ".", ",", "/", ":", "_", "-" }

\* c is of the character class cls of one of the regexes
CharIn(cls, c) ==
    CASE cls = "nonspace" -> ~IsSpace(c)
      [] cls = "space" -> IsSpace(c)
      [] cls = "mail" -> IsMailChar(c)
      [] cls = "word" -> IsWord(c)
      [] cls = "var" -> IsVarChar(c)
      [] cls = "hex" -> IsHex(c)
      [] cls = "alpha" -> IsAlpha(c)
      [] cls = "num" -> IsNumChar(c)
      [] cls = "notgt" -> c # ">"
      [] OTHER -> c # "&"

\* the last index e >= i-1 with all of s[i..e] of the class cls: a greedy run
RunEnd(s, i, cls) ==
    LET bad == { j \in i..Len(s) : ~CharIn(cls, s[j]) }
    IN  IF bad = {} THEN Len(s) ELSE Min(bad) - 1

\* the literal lit stands in s at index i
LitAt(s, i, lit) ==
    /\ i >= 1
    /\ i + Len(lit) - 1 <= Len(s)
    /\ \A k \in 1..Len(lit) : s[i + k - 1] = lit[k]

safe_str(x) == IF x = None THEN << >> ELSE x

\* Python truthiness of an optional string
Truthy(x) == x # None /\ x # << >>

\* not text.strip()
IsBlankNoStrip(s) == s = << >>

IsBlank(s) == \A k \in 1..Len(s) : IsSpace(s[k])

-----------------------------------------------------------------------------
(* NONTRANS_PATTERNS: each Match operator gives the last index of the      *)
(* regex's match starting at i, or 0 when it does not match there.         *)

\* https?://\S+
MatchUrl(s, i) ==
    LET j == IF ~LitAt(s, i, << "h", "t", "t", "p" >>) THEN 0
             ELSE IF LitAt(s, i + 4, << "s", ":", "/", "/" >>) THEN i + 8
             ELSE IF LitAt(s, i + 4, << ":", "/", "/" >>) THEN i + 7
             ELSE 0
        e == RunEnd(s, j, "nonspace")
    IN  IF j > 0 /\ e >= j THEN e ELSE 0

\* www\.\S+
MatchWww(s, i) ==
    LET e == RunEnd(s, i + 4, "nonspace")
    IN  IF LitAt(s, i, << "w", "w", "w", "." >>) /\ e >= i + 4 THEN e ELSE 0

\* [\w\.-]+@[\w\.-]+\.\w+
MatchEmail(s, i) ==
    LET a == RunEnd(s, i, "mail")          \* end of the local part
        b == RunEnd(s, a + 2, "mail")      \* end of the run after "@"
        \* the domain part gives back characters until "." and a word follow
        ks == { k \in (a + 2)..(b - 2) : s[k + 1] = "." /\ IsWord(s[k + 2]) }
    IN  IF a >= i /\ a + 1 <= Len(s) /\ s[a + 1] = "@" /\ ks # {}
        THEN RunEnd(s, Max(ks) + 2, "word")
        ELSE 0

\* %[^%\n\r]+%
MatchStorylineVar(s, i) ==
    LET e == RunEnd(s, i + 1, "var")
    IN  IF i <= Len(s) /\ s[i] = "%" /\ e >= i + 1 /\ e + 1 <= Len(s) /\ s[e + 1] = "%"
        THEN e + 1 ELSE 0

\* &[#xX]?[0-9A-Fa-f]+;|&[A-Za-z]+;
MatchEntity(s, i) ==
    LET opt == i + 1 <= Len(s) /\ s[i + 1] \in { "#", "x", "X" }
        h1 == RunEnd(s, i + 2, "hex")          \* with the optional character
        h0 == RunEnd(s, i + 1, "hex")          \* without it
        al == RunEnd(s, i + 1, "alpha")
        Semi(e) == e + 1 <= Len(s) /\ s[e + 1] = ";"
    IN  IF ~(i <= Len(s) /\ s[i] = "&") THEN 0
        ELSE IF opt /\ h1 >= i + 2 /\ Semi(h1) THEN h1 + 1
        ELSE IF h0 >= i + 1 /\ Semi(h0) THEN h0 + 1
        ELSE IF al >= i + 1 /\ Semi(al) THEN al + 1
        ELSE 0

\* the regex assertion \b between s[e] and s[e+1]
WordBoundary(s, e) ==
    LET before == e >= 1 /\ e <= Len(s) /\ IsWord(s[e])
        after == e + 1 >= 1 /\ e + 1 <= Len(s) /\ IsWord(s[e + 1])
    IN  before # after

\* \b\d[\d\.,/:_-]*\b
MatchNumber(s, i) ==
    LET r == RunEnd(s, i + 1, "num")
        es == { e \in i..r : WordBoundary(s, e) }
    IN  IF i <= Len(s) /\ IsDigit(s[i]) /\ WordBoundary(s, i - 1) /\ es # {}
        THEN Max(es) ELSE 0

NumPatterns == 6

MatchPat(p, s, i) ==
    CASE p = 1 -> MatchUrl(s, i)
      [] p = 2 -> MatchWww(s, i)
      [] p = 3 -> MatchEmail(s, i)
      [] p = 4 -> MatchStorylineVar(s, i)
      [] p = 5 -> MatchEntity(s, i)
      [] OTHER -> MatchNumber(s, i)

\* str(k) for k >= 0
RECURSIVE Dec(_)
Dec(k) == IF k < 10 THEN << Digits[k + 1] >> ELSE Dec(k \div 10) \o << Digits[(k % 10) + 1] >>

\* f"__TK{idx}__"
Marker(k) == << "_", "_", "T", "K" >> \o Dec(k) \o << "_", "_" >>

\* re.sub(pat, repl, text) from index i on: the leftmost match at or after i is
\* replaced and the scan goes on behind it; out is the text written so far
RECURSIVE SubFrom(_, _, _, _, _)
SubFrom(p, s, i, out, toks) ==
    Only({ IF starts = {} THEN [ text |-> out \o SubSeq(s, i, Len(s)), tokens |-> toks ]
           ELSE Only({ SubFrom(p, s, e + 1,
                               out \o SubSeq(s, i, Min(starts) - 1) \o Marker(Len(toks)),
                               Append(toks, SubSeq(s, Min(starts), e))) :
                       e \in { MatchPat(p, s, Min(starts)) } }) :
           starts \in { { j \in i..Len(s) : MatchPat(p, s, j) >= j } } })

RECURSIVE ProtectFrom(_, _, _)
ProtectFrom(p, s, toks) ==
    IF p > NumPatterns THEN [ text |-> s, tokens |-> toks ]
    ELSE Only({ ProtectFrom(p + 1, r.text, r.tokens) : r \in { SubFrom(p, s, 1, << >>, toks) } })

protect_nontranslatable(t) ==
    IF safe_str(t) = << >> THEN [ text |-> << >>, tokens |-> << >> ]
    ELSE ProtectFrom(1, safe_str(t), << >>)

\* str.replace(old, new): leftmost occurrences, the replacement is not rescanned
RECURSIVE ReplaceFrom(_, _, _, _, _)
ReplaceFrom(s, i, old, new, out) ==
    LET starts == { j \in i..Len(s) : LitAt(s, j, old) }
    IN  IF starts = {} THEN out \o SubSeq(s, i, Len(s))
        ELSE LET j == Min(starts)
             IN  ReplaceFrom(s, j + Len(old), old, new, out \o SubSeq(s, i, j - 1) \o new)

Replace(s, old, new) == ReplaceFrom(s, 1, old, new, << >>)

\* the loop of restore_nontranslatable, from token index k down to 0
RECURSIVE RestoreFrom(_, _, _)
RestoreFrom(s, toks, k) ==
    IF k < 0 THEN s
    ELSE RestoreFrom(Replace(s, Marker(k), toks[k + 1]), toks, k - 1)

restore_nontranslatable(t, toks) ==
    IF toks = << >> THEN safe_str(t) ELSE RestoreFrom(safe_str(t), toks, Len(toks) - 1)

-----------------------------------------------------------------------------
(* The external translator and translate_text_unit *)

ToUpper(c) == IF \E k \in 1..26 : LowerSeq[k] = c
              THEN UpperSeq[CHOOSE k \in 1..26 : LowerSeq[k] = c] ELSE c

ToLower(c) == IF \E k \in 1..26 : UpperSeq[k] = c
              THEN LowerSeq[CHOOSE k \in 1..26 : UpperSeq[k] = c] ELSE c

\* What GoogleTranslator(...).translate(t) may do.  "raise": the call fails.
\* "upper": a translation that rewrites the prose (here to upper case) and
\* leaves every marker as it is.  "lower": a translation that rewrites the
\* markers too (__tk0__), which the provider is free to do.
Outcomes == { "raise", "upper", "lower" }

\* the try/except around the call: the text that ends up in out
External(t, oc) ==
    CASE oc = "raise" -> t
      [] oc = "upper" -> [ k \in 1..Len(t) |-> ToUpper(t[k]) ]
      [] OTHER -> [ k \in 1..Len(t) |-> ToLower(t[k]) ]

\* translate_text_unit(text, lang) when the external call does oc.
\* called: whether the translator was invoked; sent: the text it was given.
translate_text_unit(x, oc) ==
    LET t0 == safe_str(x)
    IN  IF IsBlank(t0)
        THEN [ out |-> t0, called |-> FALSE, sent |-> << >>, tokens |-> << >> ]
        ELSE Only({ [ out |-> safe_str(Only({ restore_nontranslatable(back, p.tokens) :
                                              back \in { External(p.text, oc) } })),
                      called |-> TRUE, sent |-> p.text, tokens |-> p.tokens ] :
                    p \in { protect_nontranslatable(t0) } })

-----------------------------------------------------------------------------
(* The lxml tree.  An element is a record: tag (local name), ns (its       *)
(* namespace, "" for none), defns (nsmap.get(None): the default namespace  *)
(* in scope, "" for none), attrs (a function from attribute names to       *)
(* texts), text, tail (a text or None) and kids (its children, in order).  *)
(* An element is addressed by its path: the child indices from the root.   *)

Elem(tag, ns, defns, attrs, txt, tail, kids) ==
    [ tag |-> tag, ns |-> ns, defns |-> defns, attrs |-> attrs,
      text |-> txt, tail |-> tail, kids |-> kids ]

NoAttrs == [ a \in {} |-> << >> ]

\* the element at path pth below el
RECURSIVE At(_, _)
At(el, pth) == IF pth = << >> THEN el ELSE At(el.kids[Head(pth)], Tail(pth))

\* el with the element at pth replaced by new
RECURSIVE Put(_, _, _)
Put(el, pth, new) ==
    IF pth = << >> THEN new
    ELSE [ el EXCEPT !.kids[Head(pth)] = Put(el.kids[Head(pth)], Tail(pth), new) ]

\* the paths of el's descendants (el itself excluded) in document order
RECURSIVE DescPaths(_)
RECURSIVE DescFrom(_, _)
DescPaths(el) == DescFrom(el, 1)
DescFrom(el, k) ==
    IF k > Len(el.kids) THEN << >>
    ELSE << << k >> >>
         \o [ j \in 1..Len(DescPaths(el.kids[k])) |-> << k >> \o DescPaths(el.kids[k])[j] ]
         \o DescFrom(el, k + 1)

\* root.iter(): el and its descendants in document order
IterPaths(el) == << << >> >> \o DescPaths(el)

-----------------------------------------------------------------------------
(* Spacing fix *)

Last(s) == s[Len(s)]

\* _needs_space(a, b)
needs_space(a, b) ==
    IF a = << >> \/ b = << >> THEN FALSE
    ELSE IF IsAlnum(Last(a)) /\ IsAlnum(b[1]) THEN TRUE
    ELSE IF Last(a) \in { ",", ".", ";", ":", "!", "?" } /\ IsAlnum(b[1]) THEN TRUE
    ELSE FALSE

\* re.sub(r"\s{2}", " ", s): every two whitespace characters become one space
RECURSIVE CollapsePairs(_)
CollapsePairs(s) ==
    LET starts == { j \in 1..(Len(s) - 1) : IsSpace(s[j]) /\ IsSpace(s[j + 1]) }
    IN  IF starts = {} THEN s
        ELSE SubSeq(s, 1, Min(starts) - 1) \o << " " >>
             \o CollapsePairs(SubSeq(s, Min(starts) + 2, Len(s)))

\* re.sub(r"\s{2,}", " ", s): every run of two or more whitespace characters
\* becomes one space
RECURSIVE Collapse(_)
Collapse(s) ==
    LET starts == { j \in 1..(Len(s) - 1) : IsSpace(s[j]) /\ IsSpace(s[j + 1]) }
    IN  IF starts = {} THEN s
        ELSE LET j == Min(starts)
                 e == RunEnd(s, j, "space")
             IN  SubSeq(s, 1, j - 1) \o << " " >> \o Collapse(SubSeq(s, e + 1, Len(s)))

\* s.startswith((" ", "\n", "\t"))
StartsWs(s) == s # << >> /\ s[1] \in { " ", "\n", "\t" }

\* the "if prev is not None" block of the loop body, for child i of ks
PrevBlock(ks, i) ==
    IF i = 1 THEN ks
    ELSE LET pt == ks[i - 1].tail
             ct == ks[i].text
         IN  IF Truthy(pt) /\ Truthy(ct)
             THEN [ ks EXCEPT ![i - 1].tail =
                        Collapse(IF needs_space(pt, ct) THEN pt \o << " " >> ELSE pt) ]
             ELSE IF Truthy(pt) /\ ~Truthy(ct)
             THEN [ ks EXCEPT ![i - 1].tail = Collapse(pt) ]
             ELSE IF ~Truthy(pt) /\ Truthy(ct)
             THEN IF needs_space(safe_str(ks[i - 1].text), ct)
                  THEN [ ks EXCEPT ![i].text = << " " >> \o ct ]
                  ELSE ks
             ELSE ks

\* the "if nxt is not None" block of the loop body, for child i of ks
NextBlock(ks, i) ==
    IF i = Len(ks) THEN ks
    ELSE LET ct == ks[i].text
             nt == ks[i + 1].text
             t0 == safe_str(ks[i].tail)
         IN  IF Truthy(ct) /\ Truthy(nt)
             THEN IF needs_space(ct, nt)
                  THEN [ ks EXCEPT ![i].tail =
                             Collapse(IF t0 = << >> THEN << " " >>
                                      ELSE IF ~StartsWs(t0) THEN << " " >> \o t0
                                      ELSE t0) ]
                  ELSE ks
             ELSE IF t0 # << >>
                  THEN [ ks EXCEPT ![i].tail =
                             Collapse(IF needs_space(safe_str(ct), safe_str(nt)) /\ ~StartsWs(t0)
                                      THEN << " " >> \o t0 ELSE t0) ]
                  ELSE [ ks EXCEPT ![i].tail = t0 ]

\* the loop "for i, cur in enumerate(kids)" from child i on
RECURSIVE FixKidsFrom(_, _)
FixKidsFrom(ks, i) ==
    IF i > Len(ks) THEN ks ELSE FixKidsFrom(NextBlock(PrevBlock(ks, i), i), i + 1)

\* fix_spacing_around_tags(root): root.iter() visits an element before its
\* descendants, and the visit of an element writes its children's text and tail
RECURSIVE fix_spacing_around_tags(_)
fix_spacing_around_tags(el) ==
    LET ks == FixKidsFrom(el.kids, 1)
    IN  [ el EXCEPT !.kids = [ k \in 1..Len(ks) |-> fix_spacing_around_tags(ks[k]) ] ]

-----------------------------------------------------------------------------
(* XLIFF helpers *)

NS12 == "urn:oasis:names:tc:xliff:document:1.2"

NS20 == "urn:oasis:names:tc:xliff:document:2.0"

NoPath == << 0 >>

\* root.get(name, "")
GetAttr(el, name) == IF name \in DOMAIN el.attrs THEN el.attrs[name] ELSE << >>

\* el.set(name, value)
SetAttr(el, name, value) ==
    [ el EXCEPT !.attrs = [ a \in (DOMAIN el.attrs) \cup { name } |->
                              IF a = name THEN value ELSE el.attrs[a] ] ]

\* detect_version(root); the namespaces of the model are whole names, so the
\* substring test on the default namespace is an equality
detect_version(root) ==
    IF root.defns = NS20 \/ GetAttr(root, "version") = << "2", ".", "0" >>
    THEN "2.0" ELSE "1.2"

\* get_namespaces(root)["ns"]: the root's default namespace, or the XLIFF 1.2
\* one when the root declares no namespace
get_namespaces(root) == IF root.defns # "" THEN root.defns ELSE NS12

\* the paths among ps (paths below base) whose element has this tag and namespace
PathsWith(rootEl, base, ps, nsuri, tag) ==
    SelectSeq([ k \in 1..Len(ps) |-> base \o ps[k] ],
              LAMBDA q : At(rootEl, q).tag = tag /\ At(rootEl, q).ns = nsuri)

\* el.xpath(".//ns:tag", namespaces=ns) or el.findall(".//tag")
XPathOrFindall(rootEl, base, nsuri, tag) ==
    LET ps == DescPaths(At(rootEl, base))
        byNs == PathsWith(rootEl, base, ps, nsuri, tag)
    IN  IF byNs # << >> THEN byNs ELSE PathsWith(rootEl, base, ps, "", tag)

\* el.find(".//{*}tag"): the first descendant of that local name, or None
FindAny(rootEl, base, tag) ==
    LET ps == DescPaths(At(rootEl, base))
        hits == { k \in 1..Len(ps) : At(rootEl, base \o ps[k]).tag = tag }
    IN  IF hits = {} THEN NoPath ELSE base \o ps[Min(hits)]

\* root.findall(".//{*}tag")
FindAllAny(rootEl, tag) ==
    SelectSeq(DescPaths(rootEl), LAMBDA q : At(rootEl, q).tag = tag)

\* the pairs of the containers cs (trans-units, or the segments of one unit)
RECURSIVE PairsOf(_, _)
PairsOf(rootEl, cs) ==
    IF cs = << >> THEN << >>
    ELSE LET src == FindAny(rootEl, Head(cs), "source")
             tgt == FindAny(rootEl, Head(cs), "target")
         IN  (IF src # NoPath THEN << [ src |-> src, tgt |-> tgt ] >> ELSE << >>)
             \o PairsOf(rootEl, Tail(cs))

RECURSIVE PairsOfUnits(_, _, _)
PairsOfUnits(rootEl, us, nsuri) ==
    IF us = << >> THEN << >>
    ELSE PairsOf(rootEl, XPathOrFindall(rootEl, Head(us), nsuri, "segment"))
         \o PairsOfUnits(rootEl, Tail(us), nsuri)

\* iter_source_target_pairs(root): records [src, tgt] of paths; tgt is NoPath
\* for None
iter_source_target_pairs(rootEl) ==
    LET nsuri == get_namespaces(rootEl)
    IN  IF detect_version(rootEl) = "2.0"
        THEN PairsOfUnits(rootEl, XPathOrFindall(rootEl, << >>, nsuri, "unit"), nsuri)
        ELSE PairsOf(rootEl, XPathOrFindall(rootEl, << >>, nsuri, "trans-unit"))

ParentPath(pth) == SubSeq(pth, 1, Len(pth) - 1)

\* the target ensure_target_for_source makes when tgt is None: in the default
\* namespace in scope at the parent, or the XLIFF 1.2 one
NewTarget(parent) ==
    Elem("target", IF parent.defns # "" THEN parent.defns ELSE NS12, parent.defns,
         NoAttrs, None, None, << >>)

\* ensure_target_for_source(src, tgt): the tree and the path of the target
ensure_target_for_source(rootEl, src, tgt) ==
    LET pp == ParentPath(src)
        parent == At(rootEl, pp)
    IN  IF tgt = NoPath
        THEN [ doc |-> Put(rootEl, pp,
                           [ parent EXCEPT !.kids = Append(parent.kids, NewTarget(parent)) ]),
               tgt |-> pp \o << Len(parent.kids) + 1 >>, made |-> TRUE ]
        ELSE [ doc |-> rootEl, tgt |-> tgt, made |-> FALSE ]

-----------------------------------------------------------------------------
(* Text traversal.  A walk makes its external calls one after the other;   *)
(* ocs[n] is what the n-th call of the walk does.  The walk state st holds *)
(* k (calls made), sent (the texts the translator was given) and log (the  *)
(* text units visited: where, the text before and after, and what the call *)
(* did, "skipped" when none was made).                                     *)

NoCalls == [ k |-> 0, sent |-> << >>, log |-> << >> ]

OcAt(ocs, n) == IF n \in DOMAIN ocs THEN ocs[n] ELSE "raise"

\* a unit the caller's guard (text is None, or text.strip() is empty) keeps
\* from translate_text_unit
SkipUnit(x, st, site, loc, field) ==
    [ out |-> x,
      st |-> IF x = None THEN st
             ELSE [ st EXCEPT !.log = Append(@, [ site |-> site, loc |-> loc, field |-> field,
                                                  before |-> x, after |-> x, oc |-> "skipped",
                                                  tokens |-> << >> ]) ] ]

\* translate_text_unit(x, lang) as the next call of the walk
CallUnit(x, ocs, st, site, loc, field) ==
    LET oc == OcAt(ocs, st.k + 1)
    IN  Only({ [ out |-> r.out,
                 st |-> [ k |-> IF r.called THEN st.k + 1 ELSE st.k,
                          sent |-> IF r.called THEN Append(st.sent, r.sent) ELSE st.sent,
                          log |-> Append(st.log, [ site |-> site, loc |-> loc, field |-> field,
                                                   before |-> x, after |-> r.out,
                                                   oc |-> IF r.called THEN oc ELSE "skipped",
                                                   tokens |-> r.tokens ]) ] ] :
               r \in { translate_text_unit(x, oc) } })

\* "if x is not None and x.strip(): x = translate_text_unit(x, lang)"
GuardedUnit(x, ocs, st, site, loc, field) ==
    IF x # None /\ ~IsBlank(x) THEN CallUnit(x, ocs, st, site, loc, field)
    ELSE SkipUnit(x, st, site, loc, field)

\* translate_node_texts(elem, lang); loc is elem's path from the walk's start
RECURSIVE translate_node_texts(_, _, _, _)
RECURSIVE TranslateKids(_, _, _, _, _)
translate_node_texts(el, ocs, st, loc) ==
    Only({ Only({ [ el |-> [ el EXCEPT !.text = a.out, !.kids = b.kids ], st |-> b.st ] :
                  b \in { TranslateKids(el.kids, 1, ocs, a.st, loc) } }) :
           a \in { GuardedUnit(el.text, ocs, st, "node", loc, "text") } })

TranslateKids(ks, i, ocs, st, loc) ==
    IF i > Len(ks) THEN [ kids |-> ks, st |-> st ]
    ELSE Only({ Only({ TranslateKids([ ks EXCEPT ![i] = [ c.el EXCEPT !.tail = t.out ] ],
                                     i + 1, ocs, t.st, loc) :
                       t \in { GuardedUnit(ks[i].tail, ocs, c.st, "node", loc \o << i >>, "tail") } }) :
                c \in { translate_node_texts(ks[i], ocs, st, loc \o << i >>) } })

\* translate_all_notes(root, lang) over the notes ps
RECURSIVE NotesFrom(_, _, _, _)
NotesFrom(rootEl, ps, ocs, st) ==
    IF ps = << >> THEN [ doc |-> rootEl, st |-> st ]
    ELSE Only({ NotesFrom(Put(rootEl, Head(ps), [ At(rootEl, Head(ps)) EXCEPT !.text = r.out ]),
                          Tail(ps), ocs, r.st) :
                r \in { GuardedUnit(At(rootEl, Head(ps)).text, ocs, st, "note", Head(ps), "text") } })

translate_all_notes(rootEl, ocs) == NotesFrom(rootEl, FindAllAny(rootEl, "note"), ocs, NoCalls)

A11Y_ATTRS == << "title", "alt", "aria-label", "aria-placeholder", "aria-roledescription",
                 "data-title", "data-alt" >>

\* the loop "for a in A11Y_ATTRS" on element el from index j on
RECURSIVE AttrsOfFrom(_, _, _, _, _)
AttrsOfFrom(el, j, ocs, st, loc) ==
    IF j > Len(A11Y_ATTRS) THEN [ el |-> el, st |-> st ]
    ELSE LET a == A11Y_ATTRS[j]
         IN  IF a \in DOMAIN el.attrs
             THEN Only({ AttrsOfFrom([ el EXCEPT !.attrs[a] = r.out ], j + 1, ocs, r.st, loc) :
                         r \in { IF ~IsBlank(el.attrs[a])
                                 THEN CallUnit(el.attrs[a], ocs, st, "attr", loc, a)
                                 ELSE SkipUnit(el.attrs[a], st, "attr", loc, a) } })
             ELSE AttrsOfFrom(el, j + 1, ocs, st, loc)

\* translate_accessibility_attrs(root, lang) over the elements ps
RECURSIVE AttrsFrom(_, _, _, _)
AttrsFrom(rootEl, ps, ocs, st) ==
    IF ps = << >> THEN [ doc |-> rootEl, st |-> st ]
    ELSE Only({ AttrsFrom(Put(rootEl, Head(ps), r.el), Tail(ps), ocs, r.st) :
                r \in { AttrsOfFrom(At(rootEl, Head(ps)), 1, ocs, st, Head(ps)) } })

translate_accessibility_attrs(rootEl, ocs) == AttrsFrom(rootEl, IterPaths(rootEl), ocs, NoCalls)

-----------------------------------------------------------------------------
(* Storyline-specific utilities *)

\* re.search(r'(?:<[^>]+>|&lt;[^&]+&gt;)', s)
looks_like_pseudo_xml(x) ==
    LET s == safe_str(x)
    IN  \E i \in 1..Len(s) :
            \/ /\ s[i] = "<"
               /\ RunEnd(s, i + 1, "notgt") >= i + 1
               /\ RunEnd(s, i + 1, "notgt") < Len(s)
            \/ /\ LitAt(s, i, << "&", "l", "t", ";" >>)
               /\ RunEnd(s, i + 4, "notamp") >= i + 4
               /\ LitAt(s, RunEnd(s, i + 4, "notamp") + 1, << "&", "g", "t", ";" >>)

PseudoAttrs == << << "T", "e", "x", "t" >>, << "L", "a", "b", "e", "l" >>, << "A", "l", "t" >>, << "T", "i", "t", "l", "e" >>, << "T", "o", "o", "l", "t", "i", "p" >>, << "V", "a", "l", "u", "e" >> >>

\* the match of rf'({attr}\s*=\s*{q})([^{q}]*?)({q})' at index j: the last
\* index of the match (0 for none) and the bounds of group 2
MatchAttr(attr, q, s, j) ==
    LET a == RunEnd(s, j + Len(attr), "space")
        b == RunEnd(s, a + 2, "space")
        closes == { c \in (b + 2)..Len(s) : s[c] = q }
    IN  IF /\ LitAt(s, j, attr)
           /\ a + 1 <= Len(s) /\ s[a + 1] = "="
           /\ b + 1 <= Len(s) /\ s[b + 1] = q
           /\ closes # {}
        THEN [ e |-> Min(closes), vs |-> b + 2, ve |-> Min(closes) - 1 ]
        ELSE [ e |-> 0, vs |-> 0, ve |-> 0 ]

\* re.sub(pat, lambda m: f'{attr}={q}{_tx(m.group(2))}{q}', s) from index i on
RECURSIVE SubAttrFrom(_, _, _, _, _, _, _, _)
SubAttrFrom(attr, q, s, i, out, ocs, st, loc) ==
    Only({ IF starts = {} THEN [ out |-> out \o SubSeq(s, i, Len(s)), st |-> st ]
           ELSE Only({ Only({ SubAttrFrom(attr, q, s, m.e + 1,
                                          out \o SubSeq(s, i, Min(starts) - 1) \o attr
                                              \o << "=", q >> \o r.out \o << q >>,
                                          ocs, r.st, loc) :
                              r \in { CallUnit(SubSeq(s, m.vs, m.ve), ocs, st,
                                               "pseudo", loc, "value") } }) :
                       m \in { MatchAttr(attr, q, s, Min(starts)) } }) :
           starts \in { { j \in i..Len(s) : MatchAttr(attr, q, s, j).e > 0 } } })

\* _translate_attr_values_in_pseudo_xml(s, lang): the loop over attrs from n on
RECURSIVE PseudoFrom(_, _, _, _, _)
PseudoFrom(s, n, ocs, st, loc) ==
    IF n > Len(PseudoAttrs) THEN [ out |-> s, st |-> st ]
    ELSE Only({ Only({ PseudoFrom(sq.out, n + 1, ocs, sq.st, loc) :
                       sq \in { SubAttrFrom(PseudoAttrs[n], "'", dq.out, 1, << >>,
                                            ocs, dq.st, loc) } }) :
                dq \in { SubAttrFrom(PseudoAttrs[n], "\"", s, 1, << >>, ocs, st, loc) } })

translate_attr_values_in_pseudo_xml(s, ocs, st, loc) ==
    IF s = << >> THEN [ out |-> s, st |-> st ] ELSE PseudoFrom(s, 1, ocs, st, loc)

\* the assignment to elem.text / child.tail in translate_node_texts_storyline
StorylineUnit(x, ocs, st, loc, field) ==
    IF x # None /\ ~IsBlank(x)
    THEN IF looks_like_pseudo_xml(x)
         THEN translate_attr_values_in_pseudo_xml(x, ocs, st, loc)
         ELSE CallUnit(x, ocs, st, "node", loc, field)
    ELSE SkipUnit(x, st, "node", loc, field)

RECURSIVE translate_node_texts_storyline(_, _, _, _)
RECURSIVE StorylineKids(_, _, _, _, _)
translate_node_texts_storyline(el, ocs, st, loc) ==
    Only({ Only({ [ el |-> [ el EXCEPT !.text = a.out, !.kids = b.kids ], st |-> b.st ] :
                  b \in { StorylineKids(el.kids, 1, ocs, a.st, loc) } }) :
           a \in { StorylineUnit(el.text, ocs, st, loc, "text") } })

StorylineKids(ks, i, ocs, st, loc) ==
    IF i > Len(ks) THEN [ kids |-> ks, st |-> st ]
    ELSE Only({ Only({ StorylineKids([ ks EXCEPT ![i] = [ c.el EXCEPT !.tail = t.out ] ],
                                     i + 1, ocs, t.st, loc) :
                       t \in { StorylineUnit(ks[i].tail, ocs, c.st, loc \o << i >>, "tail") } }) :
                c \in { translate_node_texts_storyline(ks[i], ocs, st, loc \o << i >>) } })

\* the target language codes of get_google_lang_pairs
LangCodes == { << "e", "s" >>, << "e", "n" >>, << "p", "t" >> }

\* MAP.get(lang_code, lang_code) in set_target_language
LangMap(code) ==
    CASE code = << "p", "t" >> -> << "p", "t", "-", "B", "R" >>
      [] code = << "e", "n" >> -> << "e", "n", "-", "U", "S" >>
      [] code = << "e", "s" >> -> << "e", "s", "-", "E", "S" >>
      [] code = << "f", "r" >> -> << "f", "r", "-", "F", "R" >>
      [] code = << "d", "e" >> -> << "d", "e", "-", "D", "E" >>
      [] code = << "i", "t" >> -> << "i", "t", "-", "I", "T" >>
      [] OTHER -> code

HasDash(s) == \E k \in 1..Len(s) : s[k] = "-"

\* source_lang.split("-", 1)[1]
AfterDash(s) == SubSeq(s, Min({ k \in 1..Len(s) : s[k] = "-" }) + 1, Len(s))

\* set_target_language(root, lang_code)
set_target_language(rootEl, code) ==
    LET v == detect_version(rootEl)
        fileP == FindAny(rootEl, << >>, "file")
        srcLang == IF v = "1.2"
                   THEN IF fileP # NoPath THEN GetAttr(At(rootEl, fileP), "source-language") ELSE << >>
                   ELSE GetAttr(rootEl, "srcLang")
        mapped == LangMap(code)
        target == IF srcLang # << >> /\ HasDash(srcLang) /\ ~HasDash(mapped)
                  THEN code \o << "-" >> \o AfterDash(srcLang) ELSE mapped
    IN  IF v = "1.2"
        THEN IF fileP # NoPath
             THEN Put(rootEl, fileP, SetAttr(At(rootEl, fileP), "target-language", target))
             ELSE rootEl
        ELSE SetAttr(rootEl, "trgLang", target)

-----------------------------------------------------------------------------
(* Entry point "shield": translate_text_unit on one text.  The text is     *)
(* written from at most MaxPieces pieces of Pieces.                        *)

MaxPieces == 3

\* ph: the piece is a placeholder in the sense of the specification
Pieces == {
    [ s |-> << "a", "b" >>, ph |-> FALSE ],
    [ s |-> << " " >>, ph |-> FALSE ],
    [ s |-> << "{", "n", "}" >>, ph |-> TRUE ],
    [ s |-> << "%", "d" >>, ph |-> TRUE ],
    [ s |-> << "%", "v", "%" >>, ph |-> TRUE ],
    [ s |-> << "h", "t", "t", "p", ":", "/", "/", "x", ".", "y" >>, ph |-> TRUE ],
    [ s |-> << "a", "@", "b", ".", "c" >>, ph |-> TRUE ],
    [ s |-> << "&", "a", "m", "p", ";" >>, ph |-> TRUE ],
    [ s |-> << "5" >>, ph |-> TRUE ],
    [ s |-> << "_", "_", "T", "K", "0", "_", "_" >>, ph |-> FALSE ],
    [ s |-> << "1", " ", "2", " ", "3", " ", "4", " ", "5", " ", "6", " ", "7", " ", "8", " ", "9", " ", "1", " ", "2", " " >>, ph |-> FALSE ] }

PieceSeqs == UNION { [ 1..n -> Pieces ] : n \in 0..MaxPieces }

RECURSIVE Flatten(_)
Flatten(ps) == IF ps = << >> THEN << >> ELSE Head(ps).s \o Flatten(Tail(ps))

IdleDoc ==
    /\ doc = << >> /\ orig = << >> /\ once = << >> /\ flavor = "none"
    /\ pairs = << >> /\ idx = 0 /\ handled = << >> /\ created = << >>
    /\ calls = {} /\ units = << >>

IdleShield ==
    /\ text = << >> /\ pieces = << >> /\ shielded = << >> /\ tokens = << >>
    /\ outcome = "none" /\ result = << >>

docVars == << doc, orig, once, flavor, pairs, idx, handled, created, calls, units >>

shieldVars == << text, pieces, shielded, tokens, outcome, result >>

InitShield ==
    /\ mode = "shield" /\ pc = "start"
    /\ pieces \in PieceSeqs
    /\ text = Flatten(pieces)
    /\ shielded = << >> /\ tokens = << >> /\ outcome = "none" /\ result = << >>
    /\ IdleDoc

\* one call of translate_text_unit(text, lang)
TranslateTextUnit ==
    /\ mode = "shield" /\ pc = "start"
    /\ \E oc \in Outcomes :
         \E r \in { translate_text_unit(text, oc) } :
             /\ outcome' = IF r.called THEN oc ELSE "skipped"
             /\ shielded' = r.sent
             /\ tokens' = r.tokens
             /\ result' = r.out
    /\ pc' = "done"
    /\ UNCHANGED << mode, text, pieces >>
    /\ UNCHANGED docVars

NextShield == TranslateTextUnit

SpecShield == InitShield /\ [][NextShield]_vars

-----------------------------------------------------------------------------
(* Entry point "doc": process / process_storyline on a parsed document.    *)
(* The document is xliff > file > units, of XLIFF 1.2 (trans-unit) or 2.0   *)
(* (unit > segment), with or without a default namespace, and holds at     *)
(* most MaxUnits units, each written from one of the UnitKinds.            *)

MaxUnits == 2

G(ns, attrs, txt, tail) == Elem("g", ns, ns, attrs, txt, tail, << >>)

\* what a unit holds: the source's text and inline children, whether a
\* target with other content is there already, and what follows
UnitKinds(ns) == {
    \* plain text, a target to overwrite
    [ txt |-> << "a", "b" >>, kids |-> << >>, hasTgt |-> TRUE, extra |-> "none" ],
    \* text and an inline element with attributes and a blank tail, no target, a note
    [ txt |-> << "a" >>,
      kids |-> << G(ns, [ a \in { "id", "title", "alt" } |->
                            CASE a = "id" -> << "1" >> [] a = "title" -> << "t" >> [] OTHER -> << " " >> ],
                    None, << " " >>) >>,
      hasTgt |-> FALSE, extra |-> "note" ],
    \* two inline elements with a word between them, a target to overwrite
    [ txt |-> None, kids |-> << G(ns, NoAttrs, << "a" >>, << "b" >>), G(ns, NoAttrs, << "c" >>, None) >>,
      hasTgt |-> TRUE, extra |-> "none" ],
    \* a text that holds a marker of its own, no target, an alt-trans with a target
    [ txt |-> << "_", "_", "T", "K", "0", "_", "_", " ", "5" >>, kids |-> << >>, hasTgt |-> FALSE, extra |-> "alt" ],
    \* Storyline pseudo-XML, no target, a blank note
    [ txt |-> << "<", "b", " ", "T", "e", "x", "t", "=", "\"", "a", "b", "\"", " ", "A", "l", "t", "=", "\"", " ", "\"", ">" >>, kids |-> << >>, hasTgt |-> FALSE,
      extra |-> "blanknote" ] }

OldTarget(ns) ==
    Elem("target", ns, ns, [ a \in { "state" } |-> << "n", "e", "w" >> ], << "x" >>, None,
         << Elem("x", ns, ns, [ a \in { "id" } |-> << "9" >> ], None, << "y" >>, << >>) >>)

\* the children of a trans-unit (1.2) or of a unit (2.0) of kind u
UnitKids(ver, ns, u) ==
    LET src == Elem("source", ns, ns, NoAttrs, u.txt, None, u.kids)
        st == << src >> \o (IF u.hasTgt THEN << OldTarget(ns) >> ELSE << >>)
        after == CASE u.extra = "note" ->
                        << Elem("note", ns, ns, NoAttrs, << "n" >>, None, << >>) >>
                   [] u.extra = "blanknote" ->
                        << Elem("note", ns, ns, NoAttrs, << " " >>, None, << >>) >>
                   [] u.extra = "alt" /\ ver = "1.2" ->
                        << Elem("alt-trans", ns, ns, NoAttrs, None, None,
                                << Elem("target", ns, ns, NoAttrs, << "z" >>, None, << >>) >>) >>
                   [] OTHER -> << >>
    IN  IF ver = "1.2" THEN st \o after
        ELSE << Elem("segment", ns, ns, NoAttrs, None, None, st) >> \o after

VersionText(ver) == IF ver = "2.0" THEN << "2", ".", "0" >> ELSE << "1", ".", "2" >>

PtBr == << "p", "t", "-", "B", "R" >>

\* the parsed document of version ver, default namespace ns ("" for none) and
\* units us
Document(ver, ns, us) ==
    Elem("xliff", ns, ns,
         [ a \in (IF ver = "2.0" THEN { "version", "srcLang" } ELSE { "version" }) |->
             IF a = "version" THEN VersionText(ver) ELSE PtBr ],
         None, None,
         << Elem("file", ns, ns,
                 [ a \in (IF ver = "1.2" THEN { "source-language" } ELSE {}) |-> PtBr ],
                 None, None,
                 [ k \in 1..Len(us) |->
                     Elem(IF ver = "1.2" THEN "trans-unit" ELSE "unit", ns, ns, NoAttrs,
                          None, None, UnitKids(ver, ns, us[k])) ]) >>)

Headers == { << "1.2", NS12 >>, << "1.2", "" >>, << "2.0", NS20 >>, << "2.0", "" >> }

Documents ==
    UNION { { Document(h[1], h[2], us) :
                us \in UNION { [ 1..n -> UnitKinds(h[2]) ] : n \in 1..MaxUnits } } :
            h \in Headers }

InitDoc ==
    /\ mode = "doc" /\ pc = "parsed"
    /\ flavor \in { "rise", "storyline" }
    /\ doc \in Documents
    /\ orig = doc /\ once = << >>
    /\ pairs = << >> /\ idx = 0 /\ handled = << >> /\ created = << >>
    /\ calls = {} /\ units = << >>
    /\ IdleShield

\* pairs = iter_source_target_pairs(root)
IterPairs ==
    /\ mode = "doc" /\ pc = "parsed"
    /\ pairs' = iter_source_target_pairs(doc)
    /\ pc' = "segments"
    /\ UNCHANGED << mode, doc, orig, once, flavor, idx, handled, created, calls, units >>
    /\ UNCHANGED shieldVars

\* the walk of the copy tmp in the segment loop
WalkCopy(tmp, ocs) ==
    IF flavor = "storyline" THEN translate_node_texts_storyline(tmp, ocs, NoCalls, << >>)
    ELSE translate_node_texts(tmp, ocs, NoCalls, << >>)

AllRaise == [ n \in {} |-> "raise" ]

\* what a call of the translator does during a run over a document: it
\* raises, or it returns a text other than the one it was given
WalkOutcomes == { "raise", "upper" }

\* tgt.clear() without the children: text, tail and attributes go
ClearKeepKids(el) == [ el EXCEPT !.text = None, !.tail = None, !.attrs = NoAttrs ]

\* tgt.clear()
Clear(el) == [ el EXCEPT !.text = None, !.tail = None, !.attrs = NoAttrs, !.kids = << >> ]

\* "for ch in list(tmp): tgt.append(ch)", "tgt.text = safe_str(tmp.text)" and
\* the "if len(tmp)" block: append moves a child, with its tail, out of tmp,
\* so tmp has no children left when its length is read
FillTarget(tgt, tmp) ==
    LET left == [ tmp EXCEPT !.kids = << >> ]
    IN  Only({ IF Len(left.kids) > 0
               THEN [ texted EXCEPT !.kids[Len(texted.kids)].tail = safe_str(Last(left.kids).tail) ]
               ELSE texted :
               texted \in { [ tgt EXCEPT !.kids = @ \o tmp.kids, !.text = safe_str(left.text) ] } })

\* 'if "state" not in tgt.attrib: tgt.set("state", "translated")' of
\* process_storyline
SetState(tgt) ==
    IF flavor = "storyline" /\ "state" \notin DOMAIN tgt.attrs
    THEN SetAttr(tgt, "state", << "t", "r", "a", "n", "s", "l", "a", "t", "e", "d" >>)
    ELSE tgt

\* the log of a walk, with the places made paths of the document
Rebase(log, base, pair) ==
    [ n \in 1..Len(log) |->
        [ site |-> log[n].site, loc |-> base \o log[n].loc, field |-> log[n].field,
          before |-> log[n].before, after |-> log[n].after, oc |-> log[n].oc,
          tokens |-> log[n].tokens, pair |-> pair ] ]

\* one turn of the loop "for i, (src, tgt) in enumerate(pairs, start=1)" of
\* process and of process_storyline
Segment ==
    /\ mode = "doc" /\ pc = "segments" /\ idx < Len(pairs)
    /\ \E ocs \in [ 1..WalkCopy(At(doc, pairs[idx + 1].src), AllRaise).st.k -> WalkOutcomes ] :
         \E w \in { WalkCopy(At(doc, pairs[idx + 1].src), ocs) } :
         \E e \in { ensure_target_for_source(doc, pairs[idx + 1].src, pairs[idx + 1].tgt) } :
         \E filled \in { FillTarget(Clear(At(e.doc, e.tgt)), w.el) } :
             /\ doc' = Put(e.doc, e.tgt, SetState(filled))
             /\ handled' = Append(handled, e.tgt)
             /\ created' = Append(created, e.made)
             /\ calls' = calls \cup Range(w.st.sent)
             /\ units' = units \o Rebase(w.st.log, e.tgt, idx + 1)
    /\ idx' = idx + 1
    /\ UNCHANGED << mode, pc, orig, once, flavor, pairs >>
    /\ UNCHANGED shieldVars

\* translate_all_notes(root, lang_code), once the loop is through
Notes ==
    /\ mode = "doc" /\ pc = "segments" /\ idx = Len(pairs)
    /\ \E ocs \in [ 1..translate_all_notes(doc, AllRaise).st.k -> WalkOutcomes ] :
         \E r \in { translate_all_notes(doc, ocs) } :
             /\ doc' = r.doc
             /\ calls' = calls \cup Range(r.st.sent)
             /\ units' = units \o Rebase(r.st.log, << >>, 0)
    /\ pc' = "attrs"
    /\ UNCHANGED << mode, orig, once, flavor, pairs, idx, handled, created >>
    /\ UNCHANGED shieldVars

\* translate_accessibility_attrs(root, lang_code)
Attrs ==
    /\ mode = "doc" /\ pc = "attrs"
    /\ \E ocs \in [ 1..translate_accessibility_attrs(doc, AllRaise).st.k -> WalkOutcomes ] :
         \E r \in { translate_accessibility_attrs(doc, ocs) } :
             /\ doc' = r.doc
             /\ calls' = calls \cup Range(r.st.sent)
             /\ units' = units \o Rebase(r.st.log, << >>, 0)
    /\ pc' = IF flavor = "storyline" THEN "lang" ELSE "spacing"
    /\ UNCHANGED << mode, orig, once, flavor, pairs, idx, handled, created >>
    /\ UNCHANGED shieldVars

\* set_target_language(root, lang_code), in process_storyline only
SetTargetLanguage ==
    /\ mode = "doc" /\ pc = "lang"
    /\ \E code \in LangCodes : doc' = set_target_language(doc, code)
    /\ pc' = "spacing"
    /\ UNCHANGED << mode, orig, once, flavor, pairs, idx, handled, created, calls, units >>
    /\ UNCHANGED shieldVars

\* fix_spacing_around_tags(root) and the return of the serialised tree
FixAndReturn ==
    /\ mode = "doc" /\ pc = "spacing"
    /\ doc' = fix_spacing_around_tags(doc)
    /\ pc' = "done"
    /\ UNCHANGED << mode, orig, once, flavor, pairs, idx, handled, created, calls, units >>
    /\ UNCHANGED shieldVars

Init == InitDoc

Next == IterPairs \/ Segment \/ Notes \/ Attrs \/ SetTargetLanguage \/ FixAndReturn

Spec == Init /\ [][Next]_vars

-----------------------------------------------------------------------------
(* Properties of the shield *)

\* sub occurs in s
Occurs(sub, s) == \E j \in 1..Len(s) : LitAt(s, j, sub)

\* the number of (possibly overlapping) occurrences of sub in s
CountOcc(sub, s) == Cardinality({ j \in 1..Len(s) : LitAt(s, j, sub) })

\* the texts of ps occur in s from index i on, one behind the other
RECURSIVE EmbedsFrom(_, _, _)
EmbedsFrom(ps, s, i) ==
    IF ps = << >> THEN TRUE
    ELSE LET starts == { j \in i..Len(s) : LitAt(s, j, Head(ps)) }
         IN  starts # {} /\ EmbedsFrom(Tail(ps), s, Min(starts) + Len(Head(ps)))

\* the placeholders of the text, in order
PlaceholdersOf(ps) == [ k \in 1..Len(SelectSeq(ps, LAMBDA q : q.ph)) |-> SelectSeq(ps, LAMBDA q : q.ph)[k].s ]

\* C9: protect_nontranslatable numbers its n tokens 0..n-1 and every marker
\* stands for one token, and restore_nontranslatable(protect_nontranslatable(text))
\* is text for every input text (the call failed, so out is the shielded text).
C9_RoundTrip ==
    (mode = "shield" /\ pc = "done" /\ outcome = "raise") =>
        /\ \A k \in 0..(Len(tokens) - 1) :
              \/ Occurs(Marker(k), shielded)
              \/ \E j \in (k + 2)..Len(tokens) : Occurs(Marker(k), tokens[j])
        /\ result = text

\* C4: after protect / a translator that rewrites only the prose / restore,
\* every placeholder of the text (brace variable, percent format specifier,
\* Storyline variable, URL, e-mail address, number, entity) stands in the
\* result unchanged, as often as in the text and in the same order.
C4_PlaceholdersKept ==
    (mode = "shield" /\ pc = "done" /\ outcome = "upper") =>
        /\ EmbedsFrom(PlaceholdersOf(pieces), result, 1)
        /\ \A q \in Range(pieces) : q.ph => CountOcc(q.s, result) = CountOcc(q.s, text)

-----------------------------------------------------------------------------
(* Entry point "spacing": fix_spacing_around_tags on a tree, pass after    *)
(* pass.  The tree is a unit holding one source with a text and at most    *)
(* MaxKids inline children, each with a text and a tail.                   *)

MaxKids == 2

MaxPasses == 2

ParentTexts == { None, << "a" >> }

KidTexts == { None, << >>, << "a" >>, << "a", "." >>, << " ", "a" >>, << "-" >> }

KidTails == { None, << >>, << "a" >>, << " ", "a" >>, << "a", "." >>, << " ", " ", " " >>, << "a", " ", " ", "a" >>, << "\r", "a" >>, << "\n" >> }

Inline(txt, tail) == Elem("g", "", "", NoAttrs, txt, tail, << >>)

InlineKids == { Inline(t, l) : t \in KidTexts, l \in KidTails }

SpacingTrees ==
    { Elem("unit", "", "", NoAttrs, None, None,
           << Elem("source", "", "", NoAttrs, t, None, ks) >>) :
        t \in ParentTexts, ks \in UNION { [ 1..n -> InlineKids ] : n \in 1..MaxKids } }

InitSpacing ==
    /\ mode = "spacing" /\ pc = "start"
    /\ doc \in SpacingTrees
    /\ orig = doc /\ once = << >> /\ idx = 0
    /\ flavor = "none" /\ pairs = << >> /\ handled = << >> /\ created = << >>
    /\ calls = {} /\ units = << >>
    /\ IdleShield

\* one call of fix_spacing_around_tags(root)
FixSpacingPass ==
    /\ mode = "spacing" /\ idx < MaxPasses
    /\ doc' = fix_spacing_around_tags(doc)
    /\ once' = IF idx = 0 THEN doc' ELSE once
    /\ idx' = idx + 1
    /\ pc' = "fixed"
    /\ UNCHANGED << mode, orig, flavor, pairs, handled, created, calls, units >>
    /\ UNCHANGED shieldVars

NextSpacing == FixSpacingPass

SpecSpacing == InitSpacing /\ [][NextSpacing]_vars

\* s holds two whitespace characters in a row
HasWsRun(s) == \E j \in 1..(Len(s) - 1) : IsSpace(s[j]) /\ IsSpace(s[j + 1])

\* C7: fix_spacing_around_tags is idempotent: a second pass (and any later
\* one) leaves every text and tail as the first pass left it.
C7_Idempotent == (mode = "spacing" /\ idx >= 2) => doc = once

\* C7 witness: two passes ran on a tree that the first pass changed.
C7_Witness == mode = "spacing" /\ idx = 2 /\ once # orig /\ doc = once

\* C8: after fix_spacing_around_tags no alphanumeric character of a text run
\* touches the tag of an adjacent child (the parent's text before the first
\* child, a child's tail behind its closing tag, the tail before the next
\* child's opening tag), and these runs hold no two whitespace characters in
\* a row.
C8_NoTextAbutsTag ==
    (mode = "spacing" /\ idx >= 1) =>
        \A p \in Range(IterPaths(doc)) :
            LET el == At(doc, p)
                n == Len(el.kids)
            IN  n > 0 =>
                /\ Truthy(el.text) => ~IsAlnum(Last(el.text)) /\ ~HasWsRun(el.text)
                /\ \A k \in 1..n :
                      LET tl == el.kids[k].tail
                      IN  Truthy(tl) =>
                            /\ ~IsAlnum(tl[1])
                            /\ k < n => ~IsAlnum(Last(tl))
                            /\ ~HasWsRun(tl)

-----------------------------------------------------------------------------
(* Properties of a run over a document *)

\* the children of el that are targets
TargetKids(el) == { k \in 1..Len(el.kids) : el.kids[k].tag = "target" }

\* C1: when the pair of a source holds no target, ensure_target_for_source
\* makes exactly one target, puts it right behind the source among the
\* parent's children, whatever else follows the source, and gives it the
\* namespace of the source.
C1_TargetFollowsSource ==
    mode = "doc" =>
        \A n \in 1..Len(handled) :
            created[n] =>
                /\ ParentPath(handled[n]) = ParentPath(pairs[n].src)
                /\ Last(handled[n]) = Last(pairs[n].src) + 1
                /\ At(doc, handled[n]).ns = At(doc, pairs[n].src).ns
                /\ Cardinality(TargetKids(At(doc, ParentPath(pairs[n].src))))
                     = Cardinality(TargetKids(At(orig, ParentPath(pairs[n].src)))) + 1

\* C2: when process or process_storyline is through, every source of
\* iter_source_target_pairs has exactly one target under its own parent, and
\* that target is in the parent's namespace, also when the descendant search
\* found the unit's target deeper than the unit's children.
C2_OneTargetPerSource ==
    (mode = "doc" /\ pc = "done") =>
        \A n \in 1..Len(pairs) :
            LET parent == At(doc, ParentPath(pairs[n].src))
            IN  /\ Cardinality(TargetKids(parent)) = 1
                /\ \A k \in TargetKids(parent) : parent.kids[k].ns = parent.ns

\* what the document holds at the place of the text unit u
ValueAt(rootEl, u) ==
    CASE u.site = "attr" -> At(rootEl, u.loc).attrs[u.field]
      [] u.field = "tail" -> At(rootEl, u.loc).tail
      [] OTHER -> At(rootEl, u.loc).text

\* C3: whichever calls of the translator fail, process runs to its end, and
\* in the document it returns every text unit whose call failed holds exactly
\* the text it held before, and every unit whose call succeeded holds the
\* translation.
C3_FailedUnitsKeepText ==
    (mode = "doc" /\ pc = "done" /\ flavor = "rise") =>
        \A n \in 1..Len(units) :
            /\ units[n].oc = "raise" => ValueAt(doc, units[n]) = units[n].before
            /\ units[n].oc = "upper" => ValueAt(doc, units[n]) = units[n].after

\* el without its texts and tails: tags, namespaces, nesting and attributes.
\* With all = FALSE the values of the A11Y_ATTRS are left out.
RECURSIVE Shape(_, _)
Shape(el, all) ==
    [ tag |-> el.tag, ns |-> el.ns,
      attrs |-> [ a \in DOMAIN el.attrs |->
                    IF ~all /\ a \in Range(A11Y_ATTRS) THEN << >> ELSE el.attrs[a] ],
      kids |-> [ k \in 1..Len(el.kids) |-> Shape(el.kids[k], all) ] ]

OnlyWhitespace(s) == \A k \in 1..Len(s) : s[k] \in { " ", "\n", "\t", "\r", "\f" }

\* C6: the translator is never given an empty or whitespace-only text, and at
\* every call site (element text, child tail, note text, accessibility
\* attribute, pseudo-XML attribute value) a unit that is empty or whitespace
\* only is left as it is, yields no tokens and makes no call.
C6_NoBlankCalls ==
    mode = "doc" =>
        /\ \A t \in calls : ~OnlyWhitespace(t)
        /\ \A n \in 1..Len(units) :
              OnlyWhitespace(units[n].before) =>
                  /\ units[n].oc = "skipped"
                  /\ units[n].after = units[n].before
                  /\ units[n].tokens = << >>

\* C6 witness: a run of process_storyline is through that met a blank unit at
\* each kind of call site and made calls for the other units.
C6_Witness ==
    /\ mode = "doc" /\ pc = "done" /\ calls # {}
    /\ \A site \in { "node", "note", "attr", "pseudo" } :
          \E n \in 1..Len(units) :
              units[n].site = site /\ OnlyWhitespace(units[n].before) /\ units[n].oc = "skipped"
    /\ \E n \in 1..Len(units) : units[n].oc = "upper"

\* C10: process leaves every source as it was: its text, its children's texts
\* and tails and its children's attributes are those of the input document.
C10_SourcesUnchanged ==
    (mode = "doc" /\ pc = "done" /\ flavor = "rise") =>
        \A n \in 1..Len(pairs) :
            /\ At(doc, pairs[n].src).text = At(orig, pairs[n].src).text
            /\ At(doc, pairs[n].src).kids = At(orig, pairs[n].src).kids

====
